---------------------------- MODULE Spec2Model ----------------------------
(***************************************************************************)
(* RIVM_ETL_POC: the mapping app (src/mapApp.py) and the transform app     *)
(* (src/transformApp.py).                                                  *)
(*                                                                         *)
(* Python values are records [t, v]: t is the Python type, v the value's   *)
(* text.  A pandas Series is a sequence of such values (RangeIndex), a     *)
(* DataFrame a sequence of named columns, a dict a sequence of key/value   *)
(* pairs in insertion order with no key twice.                             *)
(***************************************************************************)
EXTENDS Integers, Sequences, FiniteSets, TLC

(***************************************************************************)
(* Python values                                                           *)
(***************************************************************************)
Str(s) == [t |-> "str", v |-> s]
PyBool(s) == [t |-> "bool", v |-> s]
PyInt(s) == [t |-> "int", v |-> s]
\* None as returned by a function or found in a parsed document
None == [t |-> "None", v |-> ""]
\* the missing marker of a cell: pd.NA, NaN, NaT
NA == [t |-> "NA", v |-> ""]

\* sequences over S of length at most n, without a repeated element
RECURSIVE DistinctSeqs(_, _)
DistinctSeqs(S, n) ==
  IF n = 0 THEN {<<>>}
  ELSE LET shorter == DistinctSeqs(S, n - 1)
       IN shorter \cup {Append(q, x) : q \in {p \in shorter : Len(p) = n - 1}, x \in S}

(***************************************************************************)
(* dict: insertion-ordered key/value pairs                                 *)
(***************************************************************************)
DictKeys(d) == {d[i].key : i \in DOMAIN d}
DictHas(d, k) == \E i \in DOMAIN d : d[i].key = k
DictGet(d, k) == d[CHOOSE i \in DOMAIN d : d[i].key = k].val
\* d[k] = val: an existing key keeps its place and takes the new value
DictSetKeepFirst(d, k, val) == IF DictHas(d, k) THEN d ELSE Append(d, [key |-> k, val |-> val])
DictSet(d, k, val) ==
  IF DictHas(d, k)
  THEN [i \in DOMAIN d |-> IF d[i].key = k THEN [key |-> k, val |-> val] ELSE d[i]]
  ELSE Append(d, [key |-> k, val |-> val])
UniqueKeys(d) == \A i, j \in DOMAIN d : d[i].key = d[j].key => i = j

(***************************************************************************)
(* The schema registry                                                     *)
(***************************************************************************)
CDM_FIELDS ==
  << [id |-> "1A", name |-> "Patient ID", data_type |-> "uuid", values |-> <<>>],
     [id |-> "2A", name |-> "Primary Intervention", data_type |-> "categorical",
      values |-> <<"HIPPR", "TOTKNIE", "HMKNIE">>],
     [id |-> "3A", name |-> "Date of Surgery", data_type |-> "date", values |-> <<>>],
     [id |-> "4A", name |-> "Operation Side", data_type |-> "categorical",
      values |-> <<"left", "right">>],
     [id |-> "5A", name |-> "Previous Intervention", data_type |-> "bool", values |-> <<"yes", "no">>],
     [id |-> "6A", name |-> "Discharge Date", data_type |-> "date", values |-> <<>>],
     [id |-> "7A", name |-> "Readmission Date", data_type |-> "date", values |-> <<>>],
     [id |-> "8A", name |-> "Treating Specialty", data_type |-> "categorical",
      values |-> <<"orthopedic surgeon", "general surgeon", "trauma surgeon">>],
     [id |-> "9A", name |-> "Reoperation Date", data_type |-> "date", values |-> <<>>],
     [id |-> "10A", name |-> "Reoperation Specialty", data_type |-> "categorical",
      values |-> <<"orthopedic surgeon", "general surgeon", "trauma surgeon">>],
     [id |-> "11A", name |-> "Culture Collection Date", data_type |-> "date", values |-> <<>>],
     [id |-> "12A", name |-> "Sample number culture collection", data_type |-> "number",
      values |-> <<>>],
     [id |-> "13A", name |-> "Breeding Material", data_type |-> "categorical",
      values |-> <<"blood (sample)", "wound fluid sample (sample)">>],
     [id |-> "14A", name |-> "Result", data_type |-> "categorical",
      values |-> <<"positive", "negative">>],
     [id |-> "15A", name |-> "Antibiotic Code", data_type |-> "number", values |-> <<>>],
     [id |-> "16A", name |-> "Prescription Start Date", data_type |-> "date", values |-> <<>>],
     [id |-> "17A", name |-> "Prescription End Date", data_type |-> "date", values |-> <<>>] >>

(***************************************************************************)
(* pandas: Series and DataFrame                                            *)
(***************************************************************************)
\* a DataFrame is [cols |-> sequence of [name, data]]; its index is 0..n-1
NoFrame == [cols |-> <<>>]
FrameLen(frame) == IF frame.cols = <<>> THEN 0 ELSE Len(frame.cols[1].data)
FrameColumns(frame) == [i \in DOMAIN frame.cols |-> frame.cols[i].name]
HasColumn(frame, name) == \E i \in DOMAIN frame.cols : frame.cols[i].name = name
GetColumn(frame, name) ==
  frame.cols[CHOOSE i \in DOMAIN frame.cols : frame.cols[i].name = name].data

\* pd.Series([pd.NA] * n)
NASeriesOne(n) == <<NA>>
NASeries(n) == [i \in 1..n |-> NA]

\* frame[name] = series: an empty frame takes the series' index, any other
\* frame aligns the series on its own index
SetColumn(frame, name, series) ==
  IF frame.cols = <<>>
  THEN [cols |-> <<[name |-> name, data |-> series]>>]
  ELSE LET n == FrameLen(frame)
           aligned == [i \in 1..n |-> IF i <= Len(series) THEN series[i] ELSE NA]
       IN IF HasColumn(frame, name)
          THEN [cols |-> [i \in DOMAIN frame.cols |->
                            IF frame.cols[i].name = name
                            THEN [name |-> name, data |-> aligned] ELSE frame.cols[i]]]
          ELSE [cols |-> Append(frame.cols, [name |-> name, data |-> aligned])]

\* series.map(value_mapping): the image of a key, NaN for anything else
SeriesMap(series, value_mapping) ==
  [i \in DOMAIN series |->
     IF DictHas(value_mapping, series[i]) THEN DictGet(value_mapping, series[i]) ELSE NA]

\* series.fillna(other)
FillnaDropped(series, other) == series
Fillna(series, other) ==
  [i \in DOMAIN series |-> IF series[i] = NA THEN other[i] ELSE series[i]]

(***************************************************************************)
(* pandas: to_datetime(errors="coerce") and .dt.strftime("%d/%m/%Y")       *)
(***************************************************************************)
NaT == [y |-> 0, m |-> 0, d |-> 0, tz |-> "NaT"]

\* the texts of the model's cells that are calendar dates, as pandas reads them
DateLiteral(s) ==
  CASE s = "2024-01-15" -> [y |-> 2024, m |-> 1, d |-> 15, tz |-> "naive"]
    [] s = "2024-01-15T10:00:00+01:00" -> [y |-> 2024, m |-> 1, d |-> 15, tz |-> "+01:00"]
    [] s = "2024-03-31T10:00:00+02:00" -> [y |-> 2024, m |-> 3, d |-> 31, tz |-> "+02:00"]
    [] OTHER -> NaT

\* errors="coerce": a value that does not parse becomes NaT
ParseCell(c) == IF c.t = "str" THEN DateLiteral(c.v) ELSE NaT
ToDatetime(series) == [i \in DOMAIN series |-> ParseCell(series[i])]

\* Values with different UTC offsets do not make a datetime64 column: pandas
\* returns an object column (or raises), and .dt raises on it.
Offsets(stamps) == {stamps[i].tz : i \in DOMAIN stamps} \ {"NaT", "naive"}
DtRaises(stamps) == Cardinality(Offsets(stamps)) > 1

Pad2(n) == IF n < 10 THEN "0" \o ToString(n) ELSE ToString(n)
\* strftime("%d/%m/%Y"); NaT gives NaN
StrftimeMDY(ts) ==
  IF ts = NaT THEN NA ELSE Str(Pad2(ts.m) \o "/" \o Pad2(ts.d) \o "/" \o ToString(ts.y))
Strftime(ts) ==
  IF ts = NaT THEN NA ELSE Str(Pad2(ts.d) \o "/" \o Pad2(ts.m) \o "/" \o ToString(ts.y))
DtStrftime(stamps) == [i \in DOMAIN stamps |-> Strftime(stamps[i])]

(***************************************************************************)
(* apply_transformations                                                   *)
(***************************************************************************)
\* the state of a run of apply_transformations(df, mappings)
VARIABLES df, mappings, field_i, transformed_df, st_warnings, apply_pc
\* the builder's document, the mapping file and the st.error messages shown
VARIABLES column_mappings, mapping_file, st_errors, pc
\* the mapping app's session: the uploaded file, the sheet selected, the
\* session state, the state of the selectboxes, and the functions called
VARIABLES uploaded_file, sheet_name, session_state, selected, value_choice, called
\* the transform app's run: the metadata record, the downloads offered and
\* the st.info and st.success messages shown
VARIABLES metadata, st_downloads, st_infos

applyVars == <<df, mappings, field_i, transformed_df, st_warnings, apply_pc>>
yamlVars == <<column_mappings, mapping_file, st_errors, pc>>
mapVars == <<uploaded_file, sheet_name, session_state, selected, value_choice, called>>
runVars == <<metadata, st_downloads, st_infos>>

\* the loop over mappings.items(): the first entry whose cdm_field is the field's
RECURSIVE LastOriginalCol(_, _)
LastOriginalCol(m, cdm_field) ==
  IF m = <<>> THEN None
  ELSE IF m[Len(m)].val.cdm_field = Str(cdm_field) THEN m[Len(m)].key
  ELSE LastOriginalCol(SubSeq(m, 1, Len(m) - 1), cdm_field)
RECURSIVE FindOriginalCol(_, _)
FindOriginalCol(m, cdm_field) ==
  IF m = <<>> THEN None
  ELSE IF Head(m).val.cdm_field = Str(cdm_field) THEN Head(m).key
  ELSE FindOriginalCol(Tail(m), cdm_field)

\* original_col is None or original_col not in df.columns
ColumnMissingNoneOnly(original_col, frame) == original_col = None
ColumnMissing(original_col, frame) ==
  original_col = None \/ ~HasColumn(frame, original_col)

\* an entry of a mapping document: {"cdm_field": ...}, with or without
\* "transformation": {"value_mapping": {...}}
NoTransformation == [has_value_mapping |-> FALSE, value_mapping |-> <<>>]
Entry(cdm_field) == [cdm_field |-> Str(cdm_field), transformation |-> NoTransformation]
EntryWith(cdm_field, value_mapping) ==
  [cdm_field |-> Str(cdm_field),
   transformation |-> [has_value_mapping |-> TRUE, value_mapping |-> value_mapping]]
Pair(k, val) == [key |-> k, val |-> val]

\* mappings.get(original_col, {}).get("transformation", {})
GetTransformation(m, original_col) ==
  IF DictHas(m, original_col) THEN DictGet(m, original_col).transformation
  ELSE NoTransformation

\* the try block of a date field: the column, or the handler's all-NA column
FormatDate(series, n) ==
  LET stamps == ToDatetime(series)
  IN IF DtRaises(stamps) THEN NASeries(n) ELSE DtStrftime(stamps)

\* col_data.map(value_mapping).fillna(col_data)
ApplyValueMapping(series, value_mapping) ==
  Fillna(SeriesMap(series, value_mapping), series)

\* one field whose column is in the table: date formatting, then value mapping
TransformColumn(field, original_col) ==
  LET source == GetColumn(df, original_col)
      transformation == GetTransformation(mappings, original_col)
      dated == IF field.data_type = "date" THEN FormatDate(source, FrameLen(df)) ELSE source
  IN IF transformation.has_value_mapping
     THEN ApplyValueMapping(dated, transformation.value_mapping)
     ELSE dated

\* an iteration that fills the field with NA and continues
FieldUnmapped ==
  /\ apply_pc = "loop"
  /\ field_i <= Len(CDM_FIELDS)
  /\ LET field == CDM_FIELDS[field_i]
         original_col == FindOriginalCol(mappings, field.name)
     IN /\ ColumnMissing(original_col, df)
        /\ transformed_df' = SetColumn(transformed_df, field.name, NASeries(FrameLen(df)))
  /\ field_i' = field_i + 1
  /\ UNCHANGED <<df, mappings, st_warnings, apply_pc>>
  /\ UNCHANGED <<yamlVars, mapVars, runVars>>

\* an iteration that reads df[original_col]; a column that is not there is a KeyError
FieldMapped ==
  /\ apply_pc = "loop"
  /\ field_i <= Len(CDM_FIELDS)
  /\ LET field == CDM_FIELDS[field_i]
         original_col == FindOriginalCol(mappings, field.name)
     IN /\ ~ColumnMissing(original_col, df)
        /\ IF ~HasColumn(df, original_col)
           THEN /\ apply_pc' = "raised"
                /\ UNCHANGED <<transformed_df, st_warnings, field_i>>
           ELSE /\ transformed_df' =
                     SetColumn(transformed_df, field.name, TransformColumn(field, original_col))
                /\ st_warnings' =
                     IF field.data_type = "date" /\ DtRaises(ToDatetime(GetColumn(df, original_col)))
                     THEN Append(st_warnings, original_col)
                     ELSE st_warnings
                /\ field_i' = field_i + 1
                /\ UNCHANGED apply_pc
  /\ UNCHANGED <<df, mappings>>
  /\ UNCHANGED <<yamlVars, mapVars, runVars>>

\* return transformed_df
ApplyReturn ==
  /\ apply_pc = "loop"
  /\ field_i = Len(CDM_FIELDS) + 1
  /\ apply_pc' = "returned"
  /\ UNCHANGED <<df, mappings, field_i, transformed_df, st_warnings>>
  /\ UNCHANGED <<yamlVars, mapVars, runVars>>

(***************************************************************************)
(* PyYAML: the text of a mapping file                                      *)
(*                                                                         *)
(* A file is its sequence of lines.  A line is "key: value" (pair),        *)
(* "- value" (item) or a bare value (scalar), at an indentation; a value   *)
(* is a plain or single-quoted scalar, the empty flow mapping {} or, when  *)
(* the value is the block of more indented lines that follows, nothing.    *)
(***************************************************************************)
Plain(text) == [style |-> "plain", text |-> text]
Quoted(text) == [style |-> "single", text |-> text]
FlowEmpty == [style |-> "flow_empty", text |-> "{}"]
BlockFollows == [style |-> "block", text |-> ""]
NoKey == [style |-> "none", text |-> ""]
PairLine(indent, key, val) == [indent |-> indent, kind |-> "pair", key |-> key, val |-> val]
ItemLine(indent, val) == [indent |-> indent, kind |-> "item", key |-> NoKey, val |-> val]
ScalarLine(val) == [indent |-> 0, kind |-> "scalar", key |-> NoKey, val |-> val]

\* the type YAML 1.1 reads into a plain scalar, for the texts of the model
ImplicitType(text) ==
  CASE text \in {"yes", "no", "No", "true", "false", "on", "off"} -> "bool"
    [] text \in {"1", "2", "2024"} -> "int"
    [] text \in {"", "~", "null"} -> "null"
    [] text \in {"2024-01-15"} -> "timestamp"
    [] OTHER -> "str"

\* the Python value of a scalar: a quoted one is a str, a plain one is resolved
Resolve(scalar) ==
  IF scalar.style = "single" THEN Str(scalar.text)
  ELSE CASE ImplicitType(scalar.text) = "bool" ->
              PyBool(IF scalar.text \in {"yes", "true", "on"} THEN "True" ELSE "False")
         [] ImplicitType(scalar.text) = "int" -> PyInt(scalar.text)
         [] ImplicitType(scalar.text) = "null" -> None
         [] ImplicitType(scalar.text) = "timestamp" -> [t |-> "date", v |-> scalar.text]
         [] OTHER -> Str(scalar.text)

\* yaml.dump of a scalar: a str that would be read back as another type is quoted
EmitScalarPlain(value) == Plain(value.v)
EmitScalar(value) ==
  IF value.t = "str"
  THEN IF ImplicitType(value.v) = "str" THEN Plain(value.v) ELSE Quoted(value.v)
  ELSE IF value.t = "None" THEN Plain("null")
  ELSE IF value.t = "bool" THEN Plain(IF value.v = "True" THEN "true" ELSE "false")
  ELSE Plain(value.v)

\* Python's order of the strings the documents use as keys (by code point)
StringOrder ==
  << "1", "2024", "HIP", "KNEE", "L", "No", "R", "cdm_field", "code", "mappings",
     "opdate", "side", "transformation", "value_mapping", "yes" >>
Rank(text) == CHOOSE i \in DOMAIN StringOrder : StringOrder[i] = text
KeyLess(a, b) == Rank(a.v) < Rank(b.v)

\* sorted(dict.items()): yaml.dump sorts the keys of every mapping (sort_keys=True)
RECURSIVE SortedItems(_)
SortedItems(d) ==
  IF d = <<>> THEN <<>>
  ELSE LET i == CHOOSE k \in DOMAIN d : \A j \in DOMAIN d : j # k => KeyLess(d[k].key, d[j].key)
           rest == [j \in 1..(Len(d) - 1) |-> IF j < i THEN d[j] ELSE d[j + 1]]
       IN <<d[i]>> \o SortedItems(rest)

\* the lines of a dict of scalars, in block style
RECURSIVE DumpScalarItems(_, _)
DumpScalarItems(items, indent) ==
  IF items = <<>> THEN <<>>
  ELSE <<PairLine(indent, EmitScalar(Head(items).key), EmitScalar(Head(items).val))>>
         \o DumpScalarItems(Tail(items), indent)

\* the lines of one entry: cdm_field, then transformation with its value_mapping
DumpEntry(info, indent) ==
  <<PairLine(indent, Plain("cdm_field"), EmitScalar(info.cdm_field))>>
  \o IF ~info.transformation.has_value_mapping THEN <<>>
     ELSE <<PairLine(indent, Plain("transformation"), BlockFollows)>>
          \o IF info.transformation.value_mapping = <<>>
             THEN <<PairLine(indent + 2, Plain("value_mapping"), FlowEmpty)>>
             ELSE <<PairLine(indent + 2, Plain("value_mapping"), BlockFollows)>>
                  \o DumpScalarItems(SortedItems(info.transformation.value_mapping), indent + 4)

RECURSIVE DumpEntries(_, _)
DumpEntries(items, indent) ==
  IF items = <<>> THEN <<>>
  ELSE <<PairLine(indent, EmitScalar(Head(items).key), BlockFollows)>>
         \o DumpEntry(Head(items).val, indent + 2)
         \o DumpEntries(Tail(items), indent)

\* yaml.dump({"mappings": column_mappings}, default_flow_style=False)
YamlDump(document) ==
  IF document = <<>> THEN <<PairLine(0, Plain("mappings"), FlowEmpty)>>
  ELSE <<PairLine(0, Plain("mappings"), BlockFollows)>> \o DumpEntries(SortedItems(document), 2)

\* the lines after line p that make up its block value
BlockOf(lines, p) ==
  LET later == {q \in (p + 1)..Len(lines) : lines[q].indent <= lines[p].indent}
      stop == IF later = {} THEN Len(lines) + 1
              ELSE CHOOSE q \in later : \A r \in later : q <= r
  IN SubSeq(lines, p + 1, stop - 1)

\* the lines before line q that are its siblings: at its indentation, with
\* only deeper lines in between
Siblings(lines, q) ==
  {r \in 1..(q - 1) :
     /\ lines[r].indent = lines[q].indent
     /\ \A m \in (r + 1)..(q - 1) : lines[m].indent > lines[q].indent}

\* what the parser accepts: the first line is not indented, a line is indented
\* deeper than the one before only as its block, a line that is not continues
\* an open block, and the lines of one block are of one kind
WellFormed(lines) ==
  /\ lines # <<>> => lines[1].indent = 0
  /\ \A q \in DOMAIN lines :
       /\ lines[q].kind = "scalar" => Len(lines) = 1
       /\ q > 1 =>
            /\ lines[q].indent > lines[q - 1].indent => lines[q - 1].val = BlockFollows
            /\ lines[q].indent <= lines[q - 1].indent => Siblings(lines, q) # {}
            /\ \A r \in Siblings(lines, q) : lines[r].kind = lines[q].kind

\* the type of the value yaml.safe_load returns, or "YAMLError"
SafeLoadType(lines) ==
  IF ~WellFormed(lines) THEN "YAMLError"
  ELSE IF lines = <<>> THEN "NoneType"
  ELSE IF lines[1].kind = "item" THEN "list"
  ELSE IF lines[1].kind = "pair" \/ lines[1].val = FlowEmpty THEN "dict"
  ELSE Resolve(lines[1].val).t

\* a block of "key: scalar" lines as a dict; a later duplicate key wins
RECURSIVE LoadScalarItems(_, _)
LoadScalarItems(block, acc) ==
  IF block = <<>> THEN acc
  ELSE LoadScalarItems(Tail(block),
                       DictSet(acc, Resolve(Head(block).key), Resolve(Head(block).val)))

\* the lines of the key `name` among the lines at `indent`
LinesOfKey(block, indent, name) ==
  {q \in DOMAIN block : block[q].indent = indent /\ Resolve(block[q].key) = Str(name)}
LastOf(S) == CHOOSE q \in S : \A r \in S : r <= q

\* the block of one entry as the entry
LoadEntry(block, indent) ==
  LET cdm == LinesOfKey(block, indent, "cdm_field")
      tr == LinesOfKey(block, indent, "transformation")
      trBlock == IF tr = {} THEN <<>> ELSE BlockOf(block, LastOf(tr))
      vm == LinesOfKey(trBlock, indent + 2, "value_mapping")
  IN [cdm_field |-> IF cdm = {} THEN None ELSE Resolve(block[LastOf(cdm)].val),
      transformation |->
        IF vm = {} THEN NoTransformation
        ELSE [has_value_mapping |-> TRUE,
              value_mapping |-> LoadScalarItems(BlockOf(trBlock, LastOf(vm)), <<>>)]]

\* the block under "mappings" as the document: one entry per line at its indentation
RECURSIVE LoadEntries(_, _, _)
LoadEntries(block, q, acc) ==
  IF q > Len(block) THEN acc
  ELSE IF block[q].indent # block[1].indent THEN LoadEntries(block, q + 1, acc)
  ELSE LoadEntries(block, q + 1,
                   DictSet(acc, Resolve(block[q].key),
                           LoadEntry(BlockOf(block, q), block[q].indent + 2)))

\* yaml.safe_load(file).get("mappings", {}) of a file whose top level is a mapping
GetMappingsWhole(lines) == LoadEntries(lines, 1, <<>>)
GetMappings(lines) ==
  LET top == LinesOfKey(lines, 0, "mappings")
  IN IF top = {} THEN <<>>
     ELSE LoadEntries(BlockOf(lines, LastOf(top)), 1, <<>>)

(***************************************************************************)
(* generate_mapping_yaml and load_mapping                                  *)
(***************************************************************************)
NoFile == [uploaded |-> FALSE, lines |-> <<>>]
File(lines) == [uploaded |-> TRUE, lines |-> lines]

\* what generate_mapping_yaml(column_mappings, output_path) writes
WrittenYaml(document) == File(YamlDump(document))

\* generate_mapping_yaml(column_mappings, output_path): the file is written,
\* and is later the transform app's mapping file
GenerateMappingYaml ==
  /\ pc = "built"
  /\ mapping_file' = WrittenYaml(column_mappings)
  /\ pc' = "saved"
  /\ UNCHANGED <<column_mappings, st_errors, mappings>>
  /\ UNCHANGED <<df, field_i, transformed_df, st_warnings, apply_pc>>
  /\ UNCHANGED <<mapVars, runVars>>

\* load_mapping(mapping_file): what it returns and whether it calls st.error
LoadMappingResult(file) ==
  IF ~file.uploaded THEN [value |-> <<>>, error |-> FALSE]
  ELSE IF SafeLoadType(file.lines) = "dict"
  THEN [value |-> GetMappings(file.lines), error |-> FALSE]
  ELSE [value |-> <<>>, error |-> TRUE]

\* mappings = load_mapping(mapping_file)
LoadMapping ==
  /\ pc \in {"saved", "written"}
  /\ mappings' = LoadMappingResult(mapping_file).value
  /\ st_errors' = IF LoadMappingResult(mapping_file).error
                  THEN Append(st_errors, "Error reading YAML mapping") ELSE st_errors
  /\ pc' = IF pc = "saved" THEN "reloaded" ELSE "loaded"
  /\ UNCHANGED <<column_mappings, mapping_file>>
  /\ UNCHANGED <<df, field_i, transformed_df, st_warnings, apply_pc>>
  /\ UNCHANGED <<mapVars, runVars>>

(***************************************************************************)
(* Ingestion: ingest_file (mapping app) and read_data (transform app)      *)
(***************************************************************************)
\* an uploaded file: the suffix of its name in lower case and its content, one
\* table for a delimited or record file, one named table per sheet of a
\* spreadsheet
NoUpload == [uploaded |-> FALSE, suffix |-> "", sheets |-> <<>>]
Upload(suffix, sheets) == [uploaded |-> TRUE, suffix |-> suffix, sheets |-> sheets]
Sheet(name, table) == [name |-> name, table |-> table]
IsExcel(file) == file.suffix \in {".xls", ".xlsx"}
SheetNames(file) == [i \in DOMAIN file.sheets |-> file.sheets[i].name]

\* pd.read_excel(file, sheet_name=s): the sheet at position 0, or of that name
ReadExcelLast(file, s) == file.sheets[Len(file.sheets)].table
ReadExcel(file, s) ==
  IF s = PyInt("0") THEN file.sheets[1].table
  ELSE file.sheets[CHOOSE i \in DOMAIN file.sheets : Str(file.sheets[i].name) = s].table

\* sheet_name if sheet_name else 0
SheetOrFirst(selector) == IF selector = None THEN PyInt("0") ELSE selector

\* ingest_file(uploaded_file, sheet_name): the table or None, and whether st.error is called
ingest_file(file, selector) ==
  IF ~file.uploaded THEN [value |-> None, error |-> FALSE]
  ELSE IF file.suffix = ".csv" THEN [value |-> file.sheets[1].table, error |-> FALSE]
  ELSE IF IsExcel(file)
  THEN [value |-> ReadExcel(file, SheetOrFirst(selector)), error |-> FALSE]
  ELSE IF file.suffix = ".json" THEN [value |-> file.sheets[1].table, error |-> FALSE]
  ELSE [value |-> None, error |-> TRUE]

\* read_data(uploaded_file): pd.read_excel reads sheet 0 when it is given no sheet
read_data(file) ==
  IF ~file.uploaded THEN [value |-> None, error |-> FALSE]
  ELSE IF file.suffix = ".csv" THEN [value |-> file.sheets[1].table, error |-> FALSE]
  ELSE IF IsExcel(file) THEN [value |-> ReadExcel(file, PyInt("0")), error |-> FALSE]
  ELSE IF file.suffix = ".json" THEN [value |-> file.sheets[1].table, error |-> FALSE]
  ELSE [value |-> None, error |-> TRUE]

(***************************************************************************)
(* The mapping app: every interaction runs the script from top to bottom   *)
(***************************************************************************)
NotAvailable == Str("Not available")

\* is_categorical_field(field)
is_categorical_field(field) == field.data_type = "categorical"

\* ["Not available"] + list(df.columns)
columns_list(frame) == <<NotAvailable>> \o FrameColumns(frame)
InList(list, x) == \E i \in DOMAIN list : list[i] = x

\* series.dropna().unique().tolist(): the values in order of first appearance
RECURSIVE UniqueValues(_, _)
UniqueValues(series, acc) ==
  IF series = <<>> THEN acc
  ELSE UniqueValues(Tail(series),
                    IF Head(series) = NA \/ InList(acc, Head(series)) THEN acc
                    ELSE Append(acc, Head(series)))

\* a selectbox shows what the user chose while that is among its options, and
\* its first option otherwise
SelectedColumn(frame, sel, i) ==
  IF InList(columns_list(frame), sel[i]) THEN sel[i] ELSE NotAvailable
ValueOptions(field) == [k \in DOMAIN field.values |-> Str(field.values[k])] \o <<NotAvailable>>
\* value_choice holds the value selectboxes that do not show their first option
MappedValue(choices, i, value) ==
  IF \E c \in choices : c.field = i /\ c.value = value
  THEN (CHOOSE c \in choices : c.field = i /\ c.value = value).choice
  ELSE ValueOptions(CDM_FIELDS[i])[1]

\* the loop over unique_values: value_mapping[value] = mapped_value
RECURSIVE BuildValueMapping(_, _, _, _)
BuildValueMapping(choices, i, values, acc) ==
  IF values = <<>> THEN acc
  ELSE LET mapped_value == MappedValue(choices, i, Head(values))
       IN BuildValueMapping(choices, i, Tail(values),
                            IF mapped_value # NotAvailable
                            THEN DictSet(acc, Head(values), mapped_value) ELSE acc)

\* d[k] = val of a dict that kept the entry a key had

\* the loop over CDM_FIELDS: column_mappings[selected_column] = mapping
RECURSIVE BuildColumnMappings(_, _, _, _, _)
BuildColumnMappings(frame, sel, choices, i, acc) ==
  IF i > Len(CDM_FIELDS) THEN acc
  ELSE LET field == CDM_FIELDS[i]
           selected_column == SelectedColumn(frame, sel, i)
           mapping ==
             IF is_categorical_field(field)
             THEN EntryWith(field.name,
                            BuildValueMapping(choices, i,
                                              UniqueValues(GetColumn(frame, selected_column), <<>>),
                                              <<>>))
             ELSE Entry(field.name)
       IN BuildColumnMappings(frame, sel, choices, i + 1,
                              IF selected_column # NotAvailable
                              THEN DictSet(acc, selected_column, mapping) ELSE acc)

\* column_mappings as the script computes it in a run; nothing when no table is loaded
ColumnMappingsOf(state, sel, choices) ==
  IF state.df = None THEN <<>>
  ELSE BuildColumnMappings(state.df, sel, choices, 1, <<>>)

\* the value selectboxes a run shows: those of a categorical field with a
\* column selected, one per value of the column; the others lose their state
Rendered(state, sel, choices) ==
  IF state.df = None THEN {}
  ELSE {c \in choices :
          /\ is_categorical_field(CDM_FIELDS[c.field])
          /\ SelectedColumn(state.df, sel, c.field) # NotAvailable
          /\ InList(UniqueValues(GetColumn(state.df, SelectedColumn(state.df, sel, c.field)), <<>>),
                    c.value)}

\* the rest of a run once the session state is settled: the widgets are shown
\* and column_mappings is built
RunScript(state, sel, choices) ==
  /\ session_state' = state
  /\ selected' = sel
  /\ value_choice' = Rendered(state, sel, choices)
  /\ column_mappings' = ColumnMappingsOf(state, sel, Rendered(state, sel, choices))

\* if uploaded_file and st.session_state.df is None: the sheets and Load Data are shown
LoadDataOfferedAlways(file, state) == file.uploaded
LoadDataOffered(file, state) == file.uploaded /\ state.df = None

\* the sheet selectbox of a run: the first sheet until the user picks another
DefaultSheet(file, state) ==
  IF LoadDataOffered(file, state) /\ IsExcel(file) /\ file.sheets # <<>>
  THEN Str(file.sheets[1].name) ELSE None

\* the session goes on until its mapping file is written
SessionOpen == pc = "session"

MapUnchanged ==
  UNCHANGED <<df, mappings, field_i, transformed_df, st_warnings, apply_pc, pc, runVars>>

\* the user uploads, replaces or removes the file
UploadFile(file) ==
  /\ SessionOpen
  /\ file # uploaded_file
  /\ uploaded_file' = file
  /\ sheet_name' = DefaultSheet(file, session_state)
  /\ RunScript(session_state, selected, value_choice)
  /\ UNCHANGED <<mapping_file, st_errors, called>>
  /\ MapUnchanged

\* the user picks a sheet in "Select Sheet:"
SelectSheet(name) ==
  /\ SessionOpen
  /\ LoadDataOffered(uploaded_file, session_state)
  /\ IsExcel(uploaded_file)
  /\ InList(SheetNames(uploaded_file), name)
  /\ sheet_name # Str(name)
  /\ sheet_name' = Str(name)
  /\ RunScript(session_state, selected, value_choice)
  /\ UNCHANGED <<uploaded_file, mapping_file, st_errors, called>>
  /\ MapUnchanged

\* the user clicks "Load Data"
ClickLoadData ==
  /\ SessionOpen
  /\ LoadDataOffered(uploaded_file, session_state)
  /\ LET result == ingest_file(uploaded_file, sheet_name)
         state == IF result.value # None
                  THEN [session_state EXCEPT !.df = result.value] ELSE session_state
     IN /\ RunScript(state, selected, value_choice)
        /\ st_errors' = IF result.error THEN Append(st_errors, "Unsupported file type") ELSE st_errors
  /\ called' = called \cup {"ingest_file"}
  /\ sheet_name' = sheet_name
  /\ UNCHANGED <<uploaded_file, mapping_file>>
  /\ MapUnchanged

\* the user clicks "See Columns" or "Hide Columns"
ClickColumns ==
  /\ SessionOpen
  /\ session_state.df # None
  /\ RunScript([session_state EXCEPT !.show_columns_table = ~@], selected, value_choice)
  /\ UNCHANGED <<uploaded_file, sheet_name, mapping_file, st_errors, called>>
  /\ MapUnchanged

\* the user picks a column, or "Not available", for a CDM field
SelectColumn(i, column) ==
  /\ SessionOpen
  /\ session_state.df # None
  /\ InList(columns_list(session_state.df), column)
  /\ SelectedColumn(session_state.df, selected, i) # column
  /\ RunScript(session_state, [selected EXCEPT ![i] = column], value_choice)
  /\ UNCHANGED <<uploaded_file, sheet_name, mapping_file, st_errors, called>>
  /\ MapUnchanged

\* the value selectboxes a session has off their first option at one time
MaxValueEdits == 1

\* the user picks the CDM value, or "Not available", for a value of the column
SelectValue(i, value, choice) ==
  /\ SessionOpen
  /\ session_state.df # None
  /\ is_categorical_field(CDM_FIELDS[i])
  /\ SelectedColumn(session_state.df, selected, i) # NotAvailable
  /\ InList(UniqueValues(GetColumn(session_state.df, SelectedColumn(session_state.df, selected, i)),
                         <<>>), value)
  /\ InList(ValueOptions(CDM_FIELDS[i]), choice)
  /\ MappedValue(value_choice, i, value) # choice
  /\ RunScript(session_state, selected,
               {c \in value_choice : ~(c.field = i /\ c.value = value)}
                 \cup IF choice = ValueOptions(CDM_FIELDS[i])[1] THEN {}
                      ELSE {[field |-> i, value |-> value, choice |-> choice]})
  /\ Cardinality(value_choice') <= MaxValueEdits
  /\ UNCHANGED <<uploaded_file, sheet_name, mapping_file, st_errors, called>>
  /\ MapUnchanged

\* the user clicks "Generate Mapping YAML"
ClickGenerate ==
  /\ SessionOpen
  /\ session_state.df # None
  /\ RunScript(session_state, selected, value_choice)
  /\ mapping_file' = WrittenYaml(column_mappings')
  /\ pc' = "saved"
  /\ UNCHANGED <<uploaded_file, sheet_name, st_errors, called>>
  /\ UNCHANGED <<df, mappings, field_i, transformed_df, st_warnings, apply_pc, runVars>>

\* df = read_data(data_file), in the transform app
ReadData ==
  /\ pc = "ingest"
  /\ "read_data" \notin called
  /\ df' = read_data(uploaded_file).value
  /\ st_errors' = IF read_data(uploaded_file).error
                  THEN Append(st_errors, "Unsupported file type") ELSE st_errors
  /\ called' = called \cup {"read_data"}
  /\ UNCHANGED <<mappings, field_i, transformed_df, st_warnings, apply_pc>>
  /\ UNCHANGED <<column_mappings, mapping_file, pc, runVars>>
  /\ UNCHANGED <<uploaded_file, sheet_name, session_state, selected, value_choice>>

\* df = ingest_file(uploaded_file, sheet_name=sheet_name), in the mapping app
IngestFile ==
  /\ pc = "ingest"
  /\ "ingest_file" \notin called
  /\ LET result == ingest_file(uploaded_file, sheet_name)
     IN /\ session_state' = IF result.value # None
                            THEN [session_state EXCEPT !.df = result.value] ELSE session_state
        /\ st_errors' = IF result.error THEN Append(st_errors, "Unsupported file type") ELSE st_errors
  /\ called' = called \cup {"ingest_file"}
  /\ UNCHANGED <<df, mappings, field_i, transformed_df, st_warnings, apply_pc>>
  /\ UNCHANGED <<column_mappings, mapping_file, pc, runVars>>
  /\ UNCHANGED <<uploaded_file, sheet_name, selected, value_choice>>

(***************************************************************************)
(* The transform app: every interaction runs the script from top to bottom *)
(***************************************************************************)
\* data_file.name and mapping_file.name
DataFileName(file) == "data" \o file.suffix
MappingFileName(file) == "column_mappings.yaml"

\* str(cdm_df[col].dtype): columns of str and pd.NA cells are object columns
Dtype(series) == "object"

\* generate_metadata(cdm_df, data_filename, mapping_filename); "created" and
\* "transformation_date" are the clock's and are left out
generate_metadata(cdm_df, data_filename, mapping_filename) ==
  [ title |-> "CDM-Compliant Healthcare Dataset",
    license |-> "CC-BY-4.0",
    provenance |-> [ source_data_file |-> data_filename,
                     mapping_file_used |-> mapping_filename,
                     transformation_tool |-> "CDM Transformer App" ],
    schema |-> [ i \in DOMAIN cdm_df.cols |->
                   [ name |-> cdm_df.cols[i].name,
                     data_type |-> Dtype(cdm_df.cols[i].data),
                     description |-> "CDM field " \o cdm_df.cols[i].name ] ] ]

\* if data_file and mapping_file
BothUploaded(data_file, file) == data_file.uploaded /\ file.uploaded

\* if df is not None and mappings
ProceedsOnTable(table, document) == table # None
Proceeds(table, document) == table # None /\ document # <<>>

RunUntouched == UNCHANGED <<column_mappings, sheet_name, session_state, selected, value_choice>>

\* an interaction starts the script again, with nothing assigned or shown yet
Rerun(data_file, file) ==
  /\ uploaded_file' = data_file
  /\ mapping_file' = file
  /\ df' = None
  /\ mappings' = <<>>
  /\ field_i' = 1
  /\ transformed_df' = NoFrame
  /\ st_warnings' = <<>>
  /\ apply_pc' = "idle"
  /\ st_errors' = <<>>
  /\ called' = {}
  /\ metadata' = None
  /\ st_downloads' = <<>>
  /\ st_infos' = <<>>
  /\ pc' = "start"

\* the user uploads, replaces or removes the data file
UploadDataFile(file) ==
  /\ pc = "rendered"
  /\ file # uploaded_file
  /\ Rerun(file, mapping_file)
  /\ RunUntouched

\* the user uploads, replaces or removes the mapping file
UploadMappingFile(file) ==
  /\ pc = "rendered"
  /\ file # mapping_file
  /\ Rerun(uploaded_file, file)
  /\ RunUntouched

\* the user clicks one of the download buttons
ClickDownload ==
  /\ pc = "rendered"
  /\ st_downloads # <<>>
  /\ Rerun(uploaded_file, mapping_file)
  /\ RunUntouched

\* else: st.info
RunWaiting ==
  /\ pc = "start"
  /\ ~BothUploaded(uploaded_file, mapping_file)
  /\ st_infos' = Append(st_infos, "Please upload both a data file and a YAML mapping file to proceed.")
  /\ pc' = "rendered"
  /\ UNCHANGED <<applyVars, column_mappings, mapping_file, st_errors, mapVars, metadata, st_downloads>>

\* df = read_data(data_file)
RunReadData ==
  /\ pc = "start"
  /\ BothUploaded(uploaded_file, mapping_file)
  /\ df' = read_data(uploaded_file).value
  /\ st_errors' = IF read_data(uploaded_file).error
                  THEN Append(st_errors, "Unsupported file type") ELSE st_errors
  /\ called' = called \cup {"read_data"}
  /\ pc' = "data_read"
  /\ UNCHANGED <<mappings, field_i, transformed_df, st_warnings, apply_pc>>
  /\ UNCHANGED <<uploaded_file, mapping_file, runVars>>
  /\ RunUntouched

\* mappings = load_mapping(mapping_file)
RunLoadMapping ==
  /\ pc = "data_read"
  /\ mappings' = LoadMappingResult(mapping_file).value
  /\ st_errors' = IF LoadMappingResult(mapping_file).error
                  THEN Append(st_errors, "Error reading YAML mapping") ELSE st_errors
  /\ called' = called \cup {"load_mapping"}
  /\ pc' = "mapping_loaded"
  /\ UNCHANGED <<df, field_i, transformed_df, st_warnings, apply_pc>>
  /\ UNCHANGED <<uploaded_file, mapping_file, runVars>>
  /\ RunUntouched

\* if df is not None and mappings: st.success, and apply_transformations is entered
RunApply ==
  /\ pc = "mapping_loaded"
  /\ Proceeds(df, mappings)
  /\ st_infos' = Append(st_infos, "Data and mappings loaded successfully!")
  /\ called' = called \cup {"apply_transformations"}
  /\ field_i' = 1
  /\ transformed_df' = NoFrame
  /\ apply_pc' = "loop"
  /\ pc' = "applying"
  /\ UNCHANGED <<df, mappings, st_warnings, st_errors>>
  /\ UNCHANGED <<uploaded_file, mapping_file, metadata, st_downloads>>
  /\ RunUntouched

\* cdm_df is returned: the summary, generate_metadata and the two download buttons
RunOutputs ==
  /\ pc = "applying"
  /\ apply_pc = "returned"
  /\ metadata' = generate_metadata(transformed_df, DataFileName(uploaded_file),
                                   MappingFileName(mapping_file))
  /\ called' = called \cup {"generate_metadata"}
  /\ st_downloads' = <<"cdm_compliant_data.csv", "cdm_metadata.json">>
  /\ pc' = "rendered"
  /\ UNCHANGED <<applyVars, st_errors, st_infos>>
  /\ UNCHANGED <<uploaded_file, mapping_file>>
  /\ RunUntouched

\* elif df is None: st.error
RunFailedData ==
  /\ pc = "mapping_loaded"
  /\ ~Proceeds(df, mappings)
  /\ df = None
  /\ st_errors' = Append(st_errors, "Failed to load the data file.")
  /\ pc' = "rendered"
  /\ UNCHANGED <<applyVars, column_mappings, mapping_file, mapVars, runVars>>

\* elif not mappings: st.error
RunNoMappings ==
  /\ pc = "mapping_loaded"
  /\ ~Proceeds(df, mappings)
  /\ df # None
  /\ mappings = <<>>
  /\ st_errors' = Append(st_errors, "No valid mappings found in the YAML file.")
  /\ pc' = "rendered"
  /\ UNCHANGED <<applyVars, column_mappings, mapping_file, mapVars, runVars>>

(***************************************************************************)
(* The inputs of apply_transformations                                     *)
(***************************************************************************)
MaxRows == 2
MaxEntries == 2

CellValues ==
  { Str("M"), Str("F"), Str("2024-01-15"), Str("not-a-date"),
    Str("2024-01-15T10:00:00+01:00"), Str("2024-03-31T10:00:00+02:00"), NA }

\* a column holds dates without an offset or dates with one, not both: what
\* pandas makes of a mix differs between its versions
Unmixed(series) ==
  LET kinds == {ParseCell(series[i]).tz : i \in DOMAIN series}
  IN ~("naive" \in kinds /\ Offsets(ToDatetime(series)) # {})

RowId(i) == Str("row" \o ToString(i))

\* tables of two columns: "c1" holds any cells, "c2" the row's number
ColumnsOfLength(n) == {s \in [1..n -> CellValues] : Unmixed(s)}
TableOf(c1) ==
  [cols |-> << [name |-> Str("c1"), data |-> c1],
               [name |-> Str("c2"), data |-> [i \in DOMAIN c1 |-> RowId(i)]] >>]
SourceTables == {TableOf(c1) : c1 \in UNION {ColumnsOfLength(n) : n \in 0..MaxRows}}


\* the entries the mapping documents are made of; "c3" is in no table
EntryPool ==
  { Pair(Str("c1"), EntryWith("Primary Intervention", <<Pair(Str("M"), Str("male"))>>)),
    Pair(Str("c1"), Entry("Date of Surgery")),
    Pair(Str("c1"), EntryWith("Date of Surgery", <<Pair(Str("15/01/2024"), Str("day0"))>>)),
    Pair(Str("c2"), EntryWith("Primary Intervention", <<Pair(Str("row1"), Str("HIPPR"))>>)),
    Pair(Str("c2"), Entry("Bogus Field")),
    Pair(Str("c3"), Entry("Primary Intervention")),
    Pair(Str("c3"), Entry("Date of Surgery")) }

MappingDocuments == {m \in DistinctSeqs(EntryPool, MaxEntries) : UniqueKeys(m)}

\* no mapping file is involved in a run of apply_transformations alone
YamlIdle ==
  /\ column_mappings = <<>>
  /\ mapping_file = NoFile
  /\ st_errors = <<>>
  /\ pc = "idle"

\* no session of the mapping app is involved
MapIdle ==
  /\ uploaded_file = NoUpload
  /\ sheet_name = None
  /\ session_state = [df |-> None, show_columns_table |-> FALSE]
  /\ selected = [i \in DOMAIN CDM_FIELDS |-> NotAvailable]
  /\ value_choice = {}
  /\ called = {}

\* no run of the transform app's script is involved
RunIdle ==
  /\ metadata = None
  /\ st_downloads = <<>>
  /\ st_infos = <<>>

ApplyInit ==
  /\ df \in SourceTables
  /\ mappings \in MappingDocuments
  /\ field_i = 1
  /\ transformed_df = NoFrame
  /\ st_warnings = <<>>
  /\ apply_pc = "loop"
  /\ YamlIdle
  /\ MapIdle
  /\ RunIdle

ApplyNext == FieldUnmapped \/ FieldMapped \/ ApplyReturn

vars == <<applyVars, yamlVars, mapVars, runVars>>

SpecApply == ApplyInit /\ [][ApplyNext]_vars

(***************************************************************************)
(* The inputs of generate_mapping_yaml and load_mapping                    *)
(***************************************************************************)
MaxYamlEntries == 2

\* entries whose strings are all plain str; some read as another type when
\* they are written without quotes
YamlEntryPool ==
  { Pair(Str("side"), EntryWith("Operation Side",
                                <<Pair(Str("R"), Str("right")), Pair(Str("L"), Str("left"))>>)),
    Pair(Str("side"), Entry("Patient ID")),
    Pair(Str("code"), EntryWith("Primary Intervention", <<>>)),
    Pair(Str("code"), EntryWith("Primary Intervention", <<Pair(Str("1"), Str("HIPPR"))>>)),
    Pair(Str("2024"), Entry("Date of Surgery")),
    Pair(Str("No"), EntryWith("Previous Intervention", <<Pair(Str("yes"), Str("no"))>>)),
    Pair(Str("opdate"), Entry("Date of Surgery")) }

YamlDocuments == {m \in DistinctSeqs(YamlEntryPool, MaxYamlEntries) : UniqueKeys(m)}

\* files that were not written by generate_mapping_yaml
WrittenFiles ==
  { <<>>,
    <<PairLine(0, Plain("version"), Plain("1"))>>,
    <<PairLine(0, Plain("columns"), BlockFollows),
      PairLine(2, Plain("side"), Plain("Operation Side"))>>,
    <<ScalarLine(FlowEmpty)>>,
    <<ScalarLine(Plain("mappings"))>>,
    <<ItemLine(0, Plain("mappings")), ItemLine(0, Plain("side"))>>,
    <<PairLine(0, Plain("mappings"), Plain("none")),
      PairLine(2, Plain("side"), Plain("Operation Side"))>>,
    <<PairLine(0, Plain("version"), Plain("1")), ItemLine(0, Plain("side"))>> }

\* no table is involved in saving and loading a mapping
ApplyIdle ==
  /\ df = NoFrame
  /\ field_i = 1
  /\ transformed_df = NoFrame
  /\ st_warnings = <<>>
  /\ apply_pc = "idle"

YamlInit ==
  /\ \/ /\ column_mappings \in YamlDocuments
        /\ mapping_file = NoFile
        /\ pc = "built"
     \/ /\ column_mappings = <<>>
        /\ mapping_file \in {File(lines) : lines \in WrittenFiles}
        /\ pc = "written"
  /\ mappings = <<>>
  /\ st_errors = <<>>
  /\ ApplyIdle
  /\ MapIdle
  /\ RunIdle

YamlNext == GenerateMappingYaml \/ LoadMapping

SpecYaml == YamlInit /\ [][YamlNext]_vars

(***************************************************************************)
(* Claims about apply_transformations                                      *)
(***************************************************************************)
\* what the claims read off a state
OutputColumns == transformed_df.cols
MatchingEntries(name) == {i \in DOMAIN mappings : mappings[i].val.cdm_field = Str(name)}
FirstMatch(name) ==
  CHOOSE i \in MatchingEntries(name) : \A k \in MatchingEntries(name) : i <= k
AllMissing(series) == series = [i \in 1..FrameLen(df) |-> NA]
\* the field has an entry, and the first one names a column of the table
Sourced(name) ==
  MatchingEntries(name) # {} /\ HasColumn(df, mappings[FirstMatch(name)].key)

\* the dd/mm/yyyy text of each date the cells of the tables can hold
ExpectedDMY(c) ==
  CASE c = Str("2024-01-15") -> Str("15/01/2024")
    [] c = Str("2024-01-15T10:00:00+01:00") -> Str("15/01/2024")
    [] c = Str("2024-03-31T10:00:00+02:00") -> Str("31/03/2024")
    [] OTHER -> NA
\* the column holds two dates with different UTC offsets
MixedOffsets(series) ==
  \E a, b \in DOMAIN series :
    /\ series[a] = Str("2024-01-15T10:00:00+01:00")
    /\ series[b] = Str("2024-03-31T10:00:00+02:00")
\* the working column of a field before its value mapping
Working(field, source) ==
  IF field.data_type # "date" THEN source
  ELSE IF MixedOffsets(source) THEN [i \in DOMAIN source |-> NA]
  ELSE [i \in DOMAIN source |-> ExpectedDMY(source[i])]
Substituted(value_mapping, w) ==
  IF \E p \in DOMAIN value_mapping : value_mapping[p].key = w
  THEN value_mapping[CHOOSE p \in DOMAIN value_mapping : value_mapping[p].key = w].val
  ELSE w

\* C1: the returned table has exactly the 17 CDM field names as its columns,
\* each once and in CDM_FIELDS order, and as many rows as the source table,
\* whatever the mapping document holds; the engine never raises.
C1_OutputShape ==
  /\ apply_pc # "raised"
  /\ apply_pc = "returned" =>
       /\ Len(OutputColumns) = 17
       /\ Len(CDM_FIELDS) = 17
       /\ \A j \in 1..17 :
            /\ OutputColumns[j].name = CDM_FIELDS[j].name
            /\ Len(OutputColumns[j].data) = FrameLen(df)
       /\ \A j, k \in 1..17 : OutputColumns[j].name = OutputColumns[k].name => j = k

\* a run over two rows whose document names an unknown field and an absent column
C1_Witness ==
  /\ apply_pc = "returned"
  /\ FrameLen(df) = 2
  /\ \E i \in DOMAIN mappings : mappings[i].val.cdm_field = Str("Bogus Field")
  /\ \E i \in DOMAIN mappings : ~HasColumn(df, mappings[i].key)

\* C2: a field with no entry, or whose entry names a column that is not in the
\* table, gets a column of the table's length that is missing in every cell;
\* the engine does not raise and goes on with the next field.
C2_UnmappedAllMissing ==
  /\ apply_pc # "raised"
  /\ Len(OutputColumns) = field_i - 1
  /\ \A j \in DOMAIN OutputColumns :
       ~Sourced(CDM_FIELDS[j].name) =>
         /\ Len(OutputColumns[j].data) = FrameLen(df)
         /\ AllMissing(OutputColumns[j].data)

\* the date field is mapped to a column the table lacks, and the run got past it
C2_Witness ==
  /\ apply_pc = "returned"
  /\ FrameLen(df) = 2
  /\ MatchingEntries("Date of Surgery") # {}
  /\ ~Sourced("Date of Surgery")
  /\ OutputColumns[3].data = <<NA, NA>>
  /\ Sourced("Primary Intervention")

\* C3: under a value_mapping, a cell whose working value is a key becomes the
\* key's image and any other cell keeps its working value; a value that is no
\* key never becomes the missing marker.
C3_ValueMapping ==
  \A j \in DOMAIN OutputColumns :
    LET field == CDM_FIELDS[j] IN
    (Sourced(field.name) /\ mappings[FirstMatch(field.name)].val.transformation.has_value_mapping) =>
      LET e == mappings[FirstMatch(field.name)]
          w == Working(field, GetColumn(df, e.key))
          vm == e.val.transformation.value_mapping
      IN \A r \in 1..FrameLen(df) :
           /\ OutputColumns[j].data[r] = Substituted(vm, w[r])
           /\ (w[r] # NA /\ ~\E p \in DOMAIN vm : vm[p].key = w[r]) =>
                OutputColumns[j].data[r] = w[r] /\ OutputColumns[j].data[r] # NA

\* {"M": "male"} over the cells "M", "F": "male", "F"
C3_Witness ==
  /\ apply_pc = "returned"
  /\ GetColumn(df, Str("c1")) = <<Str("M"), Str("F")>>
  /\ Sourced("Primary Intervention")
  /\ mappings[FirstMatch("Primary Intervention")] =
       Pair(Str("c1"), EntryWith("Primary Intervention", <<Pair(Str("M"), Str("male"))>>))
  /\ OutputColumns[2].data = <<Str("male"), Str("F")>>

\* the date fields the claims about dates look at: mapped to a column of the
\* table by an entry without a value_mapping
PlainDateField(j) ==
  /\ CDM_FIELDS[j].data_type = "date"
  /\ Sourced(CDM_FIELDS[j].name)
  /\ ~mappings[FirstMatch(CDM_FIELDS[j].name)].val.transformation.has_value_mapping
DateSource(j) == GetColumn(df, mappings[FirstMatch(CDM_FIELDS[j].name)].key)

C9_FirstMatchWins ==
  \A j \in DOMAIN OutputColumns :
    LET field == CDM_FIELDS[j] IN
    Cardinality(MatchingEntries(field.name)) >= 2 =>
      LET e == mappings[FirstMatch(field.name)] IN
      IF ~HasColumn(df, e.key) THEN AllMissing(OutputColumns[j].data)
      ELSE LET w == Working(field, GetColumn(df, e.key)) IN
           \A r \in 1..FrameLen(df) :
             OutputColumns[j].data[r] =
               IF e.val.transformation.has_value_mapping
               THEN Substituted(e.val.transformation.value_mapping, w[r])
               ELSE w[r]

\* two entries for one field: the first names "c2", the second "c1"
C9_Witness ==
  /\ apply_pc = "returned"
  /\ GetColumn(df, Str("c1")) = <<Str("M"), Str("F")>>
  /\ mappings =
       << Pair(Str("c2"), EntryWith("Primary Intervention", <<Pair(Str("row1"), Str("HIPPR"))>>)),
          Pair(Str("c1"), EntryWith("Primary Intervention", <<Pair(Str("M"), Str("male"))>>)) >>
  /\ OutputColumns[2].data = <<Str("HIPPR"), Str("row2")>>

(***************************************************************************)
(* Claims about the mapping file                                           *)
(***************************************************************************)
\* a dict as the set of its items, a value_mapping inside it likewise: two
\* dicts are equal when they hold the same items, in whatever order
ItemSet(d) == {d[i] : i \in DOMAIN d}
DocumentItems(d) ==
  {[key |-> d[i].key,
    cdm_field |-> d[i].val.cdm_field,
    has_value_mapping |-> d[i].val.transformation.has_value_mapping,
    value_mapping |-> ItemSet(d[i].val.transformation.value_mapping)] : i \in DOMAIN d}
DictEqual(a, b) ==
  /\ Len(a) = Len(b)
  /\ DocumentItems(a) = DocumentItems(b)
  /\ \A i \in DOMAIN a :
       DictHas(b, a[i].key) /\
       Len(DictGet(b, a[i].key).transformation.value_mapping) =
         Len(a[i].val.transformation.value_mapping)

\* C6: load_mapping of the file generate_mapping_yaml wrote returns a document
\* equal to the one saved (same keys, same cdm_field, same value_mapping pairs),
\* and shows no error.
C6_RoundTrip ==
  pc = "reloaded" => DictEqual(mappings, column_mappings) /\ st_errors = <<>>

\* a document reloaded whose keys and values would read as a bool and an int
\* without their quotes, and whose keys were not saved in sorted order
C6_Witness ==
  /\ pc = "reloaded"
  /\ column_mappings =
       << Pair(Str("No"), EntryWith("Previous Intervention", <<Pair(Str("yes"), Str("no"))>>)),
          Pair(Str("2024"), Entry("Date of Surgery")) >>
  /\ mappings # column_mappings
  /\ mappings[2] = column_mappings[1]

\* the file parses and its top level has no key "mappings" (it is empty, not a
\* mapping, or a mapping with other keys)
TopLevelKeys(lines) ==
  {Resolve(lines[q].key) :
     q \in {r \in DOMAIN lines : lines[r].kind = "pair" /\ lines[r].indent = 0}}
ParsesWithoutMappings(lines) ==
  /\ SafeLoadType(lines) # "YAMLError"
  /\ Str("mappings") \notin TopLevelKeys(lines)
TopLevelIsMapping(lines) ==
  lines # <<>> /\ (lines[1].kind = "pair" \/ lines[1] = ScalarLine(FlowEmpty))

\* C7 as stated: a parseable file without the top-level key gives the empty
\* document and no error is shown.
C7_EmptyAndSilent ==
  (pc = "loaded" /\ ParsesWithoutMappings(mapping_file.lines)) =>
    mappings = <<>> /\ st_errors = <<>>

\* C7 amended: a parseable file without the top-level key gives the empty
\* document; no error is shown when its top level is a mapping, and one error
\* is shown when the file is empty or its top level is not a mapping.
C7_EmptyAndSilentIfMapping ==
  (pc = "loaded" /\ ParsesWithoutMappings(mapping_file.lines)) =>
    /\ mappings = <<>>
    /\ TopLevelIsMapping(mapping_file.lines) => st_errors = <<>>
    /\ ~TopLevelIsMapping(mapping_file.lines) => st_errors = <<"Error reading YAML mapping">>

\* a file with other keys only was loaded: the empty document, nothing shown
C7_Witness ==
  /\ pc = "loaded"
  /\ mapping_file.lines = <<PairLine(0, Plain("columns"), BlockFollows),
                            PairLine(2, Plain("side"), Plain("Operation Side"))>>
  /\ mappings = <<>>
  /\ st_errors = <<>>

(***************************************************************************)
(* The inputs of the ingestion functions and of the mapping app            *)
(***************************************************************************)
MaxSheets == 3
MaxTouched == 4

Table(c1name, c1, c2name, c2) ==
  [cols |-> <<[name |-> Str(c1name), data |-> c1], [name |-> Str(c2name), data |-> c2]>>]
TableA == Table("side", <<Str("L"), Str("R")>>, "code", <<Str("HIP"), Str("KNEE")>>)
TableB1 == Table("side", <<Str("R"), Str("R")>>, "opdate", <<Str("2024-01-15"), NA>>)
TableB2 == Table("code", <<Str("KNEE")>>, "opdate", <<NA>>)
TableB3 == Table("opdate", <<>>, "side", <<>>)

SheetPool == {Sheet("Sheet1", TableB1), Sheet("Sheet2", TableB2), Sheet("Sheet3", TableB3)}
Workbooks == DistinctSeqs(SheetPool, MaxSheets) \ {<<>>}

\* the files the ingestion functions are given
IngestFiles ==
  {Upload(suffix, <<Sheet("", table)>>) :
     suffix \in {".csv", ".json", ".txt"}, table \in {TableA, TableB1, TableB2}}
  \cup {Upload(suffix, sheets) : suffix \in {".xls", ".xlsx"}, sheets \in Workbooks}
Selectors(file) ==
  {None} \cup IF IsExcel(file) THEN {Str(file.sheets[i].name) : i \in DOMAIN file.sheets} ELSE {}

IngestInit ==
  /\ uploaded_file \in IngestFiles
  /\ sheet_name \in Selectors(uploaded_file)
  /\ session_state = [df |-> None, show_columns_table |-> FALSE]
  /\ selected = [i \in DOMAIN CDM_FIELDS |-> NotAvailable]
  /\ value_choice = {}
  /\ called = {}
  /\ df = None
  /\ mappings = <<>>
  /\ field_i = 1
  /\ transformed_df = NoFrame
  /\ st_warnings = <<>>
  /\ apply_pc = "idle"
  /\ column_mappings = <<>>
  /\ mapping_file = NoFile
  /\ st_errors = <<>>
  /\ pc = "ingest"
  /\ RunIdle

IngestNext == IngestFile \/ ReadData

SpecIngest == IngestInit /\ [][IngestNext]_vars

\* the files a user of the mapping app has at hand
FileA == Upload(".csv", <<Sheet("", TableA)>>)
FileB == Upload(".xlsx", <<Sheet("Sheet1", TableB1), Sheet("Sheet2", TableB2),
                            Sheet("Sheet3", TableB3)>>)
MapFiles == {NoUpload, FileA, FileB}
MapColumns == {NotAvailable, Str("side"), Str("code"), Str("opdate")}
MapValues == {Str("L"), Str("R"), Str("HIP"), Str("KNEE"), Str("2024-01-15")}
MapChoices == UNION {{ValueOptions(CDM_FIELDS[i])[k] : k \in DOMAIN ValueOptions(CDM_FIELDS[i])} :
                       i \in 1..MaxTouched}

MapInit ==
  /\ MapIdle
  /\ ApplyIdle
  /\ mappings = <<>>
  /\ column_mappings = <<>>
  /\ mapping_file = NoFile
  /\ st_errors = <<>>
  /\ pc = "session"
  /\ RunIdle

\* the user works on the selectboxes of the first MaxTouched fields and has
\* at most MaxValueEdits value selectboxes off their first option
MapNext ==
  \/ \E file \in MapFiles : UploadFile(file)
  \/ \E name \in {"Sheet1", "Sheet2", "Sheet3"} : SelectSheet(name)
  \/ ClickLoadData
  \/ ClickColumns
  \/ \E i \in 1..MaxTouched, column \in MapColumns : SelectColumn(i, column)
  \/ \E i \in 1..MaxTouched, value \in MapValues, choice \in MapChoices :
       SelectValue(i, value, choice)
  \/ ClickGenerate

SpecMap == MapInit /\ [][MapNext]_vars

(***************************************************************************)
(* Claims about ingestion and the mapping app                              *)
(***************************************************************************)
\* a spreadsheet of several sheets
SeveralSheets == IsExcel(uploaded_file) /\ Len(uploaded_file.sheets) >= 2

\* C5 as stated: ingesting a spreadsheet of several sheets without a sheet
\* selector yields an error and no table.
C5_NoSelectorIsAnError ==
  SeveralSheets =>
    /\ ("ingest_file" \in called /\ sheet_name = None) =>
         session_state.df = None /\ st_errors # <<>>
    /\ "read_data" \in called => df = None /\ st_errors # <<>>

\* C5 amended: ingesting a spreadsheet of several sheets without a sheet
\* selector parses its first sheet and returns that table, with no error:
\* ingest_file falls back to sheet 0 and read_data never names a sheet.
C5_NoSelectorReadsFirstSheet ==
  SeveralSheets =>
    /\ ("ingest_file" \in called /\ sheet_name = None) =>
         session_state.df = uploaded_file.sheets[1].table
    /\ "read_data" \in called => df = uploaded_file.sheets[1].table
    /\ st_errors = <<>>

\* a workbook of three sheets went through both functions without a selector
C5_Witness ==
  /\ uploaded_file = Upload(".xlsx", <<Sheet("Sheet2", TableB2), Sheet("Sheet1", TableB1),
                                        Sheet("Sheet3", TableB3)>>)
  /\ sheet_name = None
  /\ called = {"ingest_file", "read_data"}
  /\ session_state.df = TableB2
  /\ df = TableB2

\* the uploaded file is another one than the file the session's table came from
OtherFileUploaded ==
  /\ session_state.df # None
  /\ uploaded_file.uploaded
  /\ \A i \in DOMAIN uploaded_file.sheets : uploaded_file.sheets[i].table # session_state.df

\* C8 as stated: once another file is uploaded, it can be loaded, and loading
\* it makes the session hold the newly ingested table.
C8_ReloadReplaces ==
  (pc = "session" /\ OtherFileUploaded) =>
    ENABLED (ClickLoadData /\ session_state'.df = ingest_file(uploaded_file, sheet_name).value)

\* C8 amended: the session's table is set once, by Load Data, to exactly the
\* table ingested then; after that it is never replaced and never merged,
\* whatever file is uploaded next.
C8_LoadedOnce ==
  [][ /\ session_state.df # None => session_state'.df = session_state.df
      /\ session_state'.df # session_state.df =>
           session_state'.df = ingest_file(uploaded_file, sheet_name).value ]_vars

\* the table of the first file is held while the second file is the uploaded one
C8_Witness ==
  /\ session_state.df = TableA
  /\ uploaded_file = FileB

\* the fields that have the column selected
FieldsOf(column) == {i \in DOMAIN CDM_FIELDS : selected[i] = column}
LastField(column) == CHOOSE i \in FieldsOf(column) : \A k \in FieldsOf(column) : k <= i

\* C10: the document has one entry per selected column, whose cdm_field is the
\* last field in CDM_FIELDS order that selected it: a column selected for two
\* fields keeps the later field only, no entry is left for the earlier one, and
\* no two entries share a cdm_field. The file written holds that document.
C10_LaterFieldOverwrites ==
  session_state.df # None =>
    /\ DictKeys(column_mappings) = {selected[i] : i \in DOMAIN CDM_FIELDS} \ {NotAvailable}
    /\ UniqueKeys(column_mappings)
    /\ \A e \in DOMAIN column_mappings :
         column_mappings[e].val.cdm_field = Str(CDM_FIELDS[LastField(column_mappings[e].key)].name)
    /\ \A e, f \in DOMAIN column_mappings :
         column_mappings[e].val.cdm_field = column_mappings[f].val.cdm_field => e = f
    /\ \A i, j \in DOMAIN CDM_FIELDS :
         (i < j /\ selected[i] = selected[j] /\ selected[i] # NotAvailable) =>
           ~\E e \in DOMAIN column_mappings :
              column_mappings[e].val.cdm_field = Str(CDM_FIELDS[i].name)
    /\ pc = "saved" => DictEqual(GetMappings(mapping_file.lines), column_mappings)

\* "side" is selected for Primary Intervention and for Operation Side, and the
\* document written has the one entry of Operation Side
C10_Witness ==
  /\ pc = "saved"
  /\ selected[2] = Str("side")
  /\ selected[4] = Str("side")
  /\ Len(column_mappings) = 1
  /\ column_mappings[1].key = Str("side")
  /\ column_mappings[1].val.cdm_field = Str("Operation Side")

(***************************************************************************)
(* The inputs of the transform app                                         *)
(***************************************************************************)
\* the data files a user has at hand; the last one has a suffix read_data refuses
RunDataFiles ==
  { NoUpload, FileA, FileB,
    Upload(".json", <<Sheet("", TableB2)>>),
    Upload(".txt", <<Sheet("", TableA)>>) }

\* the mapping files: written by the mapping app, or by hand
RunMappingFiles ==
  {NoFile} \cup {WrittenYaml(document) : document \in YamlDocuments}
           \cup {File(lines) : lines \in WrittenFiles}

RunInit ==
  /\ uploaded_file = NoUpload
  /\ mapping_file = NoFile
  /\ df = None
  /\ mappings = <<>>
  /\ field_i = 1
  /\ transformed_df = NoFrame
  /\ st_warnings = <<>>
  /\ apply_pc = "idle"
  /\ column_mappings = <<>>
  /\ st_errors = <<>>
  /\ pc = "start"
  /\ sheet_name = None
  /\ session_state = [df |-> None, show_columns_table |-> FALSE]
  /\ selected = [i \in DOMAIN CDM_FIELDS |-> NotAvailable]
  /\ value_choice = {}
  /\ called = {}
  /\ RunIdle

RunNext ==
  \/ \E file \in RunDataFiles : UploadDataFile(file)
  \/ \E file \in RunMappingFiles : UploadMappingFile(file)
  \/ ClickDownload
  \/ RunWaiting
  \/ RunReadData
  \/ RunLoadMapping
  \/ RunApply
  \/ FieldUnmapped
  \/ FieldMapped
  \/ ApplyReturn
  \/ RunOutputs
  \/ RunFailedData
  \/ RunNoMappings

SpecRun == RunInit /\ [][RunNext]_vars

(***************************************************************************)
(* Claims about the transform app's run                                    *)
(***************************************************************************)
\* the output table and the metadata record are there and offered
OutputsProduced ==
  /\ apply_pc = "returned"
  /\ metadata # None
  /\ st_downloads = <<"cdm_compliant_data.csv", "cdm_metadata.json">>
NothingProduced ==
  /\ "apply_transformations" \notin called
  /\ "generate_metadata" \notin called
  /\ transformed_df = NoFrame
  /\ metadata = None
  /\ st_downloads = <<>>
Malformed(file) == file.uploaded /\ SafeLoadType(file.lines) = "YAMLError"
RunErrors == {"Failed to load the data file.", "No valid mappings found in the YAML file."}

\* C11: a run of the script that has ended produced the output table and the
\* metadata record if and only if both files are uploaded, read_data returned
\* a table and load_mapping returned a non-empty document; a malformed mapping
\* file makes load_mapping show an error and return the empty document; and a
\* run whose document is empty ends with an error message, with
\* apply_transformations and generate_metadata never called and no download
\* offered. The two functions are never called before their conditions hold.
C11_OutputsIffLoaded ==
  /\ pc = "rendered" =>
       (OutputsProduced <=>
          /\ BothUploaded(uploaded_file, mapping_file)
          /\ read_data(uploaded_file).value # None
          /\ LoadMappingResult(mapping_file).value # <<>>)
  /\ (pc \in {"mapping_loaded", "rendered"} /\ "load_mapping" \in called
        /\ Malformed(mapping_file)) =>
       /\ mappings = <<>>
       /\ \E i \in DOMAIN st_errors : st_errors[i] = "Error reading YAML mapping"
  /\ (pc = "rendered" /\ "load_mapping" \in called /\ mappings = <<>>) =>
       /\ st_errors # <<>>
       /\ st_errors[Len(st_errors)] \in RunErrors
       /\ NothingProduced
  /\ "apply_transformations" \in called => df # None /\ mappings # <<>>
  /\ "generate_metadata" \in called => OutputsProduced

\* a run on a table and a malformed mapping file has ended: the loader's error
\* and the run's error are shown, and nothing was produced
C11_Witness ==
  /\ pc = "rendered"
  /\ uploaded_file = FileA
  /\ mapping_file = File(<<PairLine(0, Plain("version"), Plain("1")), ItemLine(0, Plain("side"))>>)
  /\ df = TableA
  /\ mappings = <<>>
  /\ st_errors = <<"Error reading YAML mapping", "No valid mappings found in the YAML file.">>
  /\ NothingProduced

=============================================================================
